---- MODULE Spec2Model ----
(***************************************************************************)
(* FinSmart: the session state of the Streamlit application (the expense   *)
(* ledger, the budget allocation map and the category registry) and the    *)
(* script runs that read and mutate it.  One action is one run of app.py   *)
(* with the sidebar on one page and the widgets holding the values the     *)
(* user gave them.                                                         *)
(*                                                                         *)
(* Amounts are whole rupees (integers).  A date is the number of days      *)
(* since Monday 2024-01-01.                                                *)
(***************************************************************************)
EXTENDS Integers, Sequences, FiniteSets, TLC

VARIABLES
    expenses,           \* st.session_state.expenses: the rows of the DataFrame, in index order
    budgets,            \* st.session_state.budgets: dict category -> budget
    budget_categories,  \* st.session_state.budget_categories: list; <<>> while the key is absent
    day_percentages,    \* st.session_state.day_percentages: list; <<>> while the key is absent
    page,               \* the page the sidebar radio selects, rendered by the last run
    dashboard,          \* outputs of the last run of the Dashboard page
    tracker,            \* widgets and outputs of the last run of show_expense_tracker
    manager,            \* widgets and outputs of the last run of show_budget_manager
    planner,            \* widgets and outputs of the last run of the Spending Planner page
    calc,               \* inputs and outputs of the last calculation of show_investment_calculator
    chart               \* argument and result of the last call of a data_visualization plot

vars == <<expenses, budgets, budget_categories, day_percentages, page, dashboard, tracker, manager,
          planner, calc, chart>>

----------------------------------------------------------------------------
(* Bounds of the model *)

MaxLedger == 2          \* the ledger holds at most this many records
Today == 31             \* datetime.now().date(): Thursday 2024-02-01

\* the (date, amount, category) triples the user enters into the expense form
ExpenseInputs ==
    { <<Today, 3, "Food & Drinks">>, <<Today, 4, "Food & Drinks">>,
      <<Today - 11, 4, "Food & Drinks">>, <<Today + 5, 3, "Food & Drinks">>,
      <<Today, 3, "Groceries">> }
Descriptions == {""}
CustomRangeDates == {Today, Today + 5}
BudgetAmounts == {0, 5, 8}
NewCategoryBudgets == {0, 5}
EditableCategories == {"Food & Drinks"}
NewCategoryInputs == {"", "Pets", "Groceries"}

----------------------------------------------------------------------------
(* Calendar *)

DaysBeforeMonth == <<0, 31, 60, 91, 121, 152, 182, 213, 244, 274, 305, 335, 366>>

\* .dt.month of a date of 2024
MonthOf(d) == CHOOSE m \in 1..12 : DaysBeforeMonth[m] <= d /\ d < DaysBeforeMonth[m + 1]

\* .dt.year
YearOf(d) == 2024 + (d \div 366)

\* date.weekday(): Monday is 0
Weekday(d) == d % 7

----------------------------------------------------------------------------
(* Helpers over rows *)

Range(s) == {s[i] : i \in 1..Len(s)}

RECURSIVE SumAmounts(_)
\* df['amount'].sum()
SumAmounts(rows) ==
    IF rows = <<>> THEN 0 ELSE Head(rows).amount + SumAmounts(Tail(rows))

\* df[df['category'] == category]
RowsOfCategory(rows, category) == SelectSeq(rows, LAMBDA r : r.category = category)

RECURSIVE Unique(_)
\* Series.unique().tolist(): the distinct values in order of first appearance
Unique(s) ==
    IF s = <<>> THEN <<>>
    ELSE LET rest == Unique(SubSeq(s, 1, Len(s) - 1))
             last == s[Len(s)]
         IN  IF last \in Range(rest) THEN rest ELSE Append(rest, last)

\* the rows of the current month and year
ThisMonth(rows) ==
    SelectSeq(rows, LAMBDA r : MonthOf(r.date) = MonthOf(Today) /\ YearOf(r.date) = YearOf(Today))

----------------------------------------------------------------------------
(* Session state initialisation, app.py *)

NotRendered == [rendered |-> FALSE]

DefaultCategories ==
    << "Food & Drinks", "Groceries", "Transportation",
       "Entertainment", "Shopping", "Bills & Utilities",
       "Education", "Housing & Rent", "Health", "Other" >>

EmptyExpenses == <<>>
EmptyBudgets == [c \in {} |-> 0]


----------------------------------------------------------------------------
(* Expense Tracker page, Expense_tracker.py *)

\* the options of the category selectbox of the expense form
categories ==
    << "Food & Drinks", "Groceries", "Transportation",
       "Entertainment", "Shopping", "Bills & Utilities",
       "Education", "Housing & Rent", "Health", "Other" >>

\* new_expense that stores the amount as an outflow, with a negative sign
new_expenseNegated(date, amount, category, description) ==
    << [date |-> date, amount |-> 0 - amount, category |-> category, description |-> description] >>

\* the one-row DataFrame built from the form
new_expense(date, amount, category, description) ==
    << [date |-> date, amount |-> amount, category |-> category, description |-> description] >>

\* Concat with the new row put in front of the stored rows
ConcatPrepend(df, new) == new \o df

\* pd.concat([df, new], ignore_index=True)
Concat(df, new) == df \o new

\* DateFilter whose "All time" leaves out the records dated after today
DateFilterUpToToday(rows, date_filter, start_date, end_date) ==
    CASE date_filter = "This month" -> ThisMonth(rows)
      [] date_filter = "Last 7 days" -> SelectSeq(rows, LAMBDA r : r.date >= Today - 7)
      [] date_filter = "Custom" ->
            SelectSeq(rows, LAMBDA r : r.date >= start_date /\ r.date <= end_date)
      [] OTHER -> SelectSeq(rows, LAMBDA r : r.date <= Today)

\* DateFilter with the end of the custom range exclusive
DateFilterEndExclusive(rows, date_filter, start_date, end_date) ==
    CASE date_filter = "This month" -> ThisMonth(rows)
      [] date_filter = "Last 7 days" -> SelectSeq(rows, LAMBDA r : r.date >= Today - 7)
      [] date_filter = "Custom" ->
            SelectSeq(rows, LAMBDA r : r.date >= start_date /\ r.date < end_date)
      [] OTHER -> rows

\* the date filter of the history tab
DateFilter(rows, date_filter, start_date, end_date) ==
    CASE date_filter = "This month" -> ThisMonth(rows)
      [] date_filter = "Last 7 days" -> SelectSeq(rows, LAMBDA r : r.date >= Today - 7)
      [] date_filter = "Custom" ->
            SelectSeq(rows, LAMBDA r : r.date >= start_date /\ r.date <= end_date)
      [] OTHER -> rows

\* CategoryFilter without the test for an empty selection
CategoryFilterAlways(rows, selected_categories) ==
    SelectSeq(rows, LAMBDA r : r.category \in selected_categories)

\* the category filter of the history tab
CategoryFilter(rows, selected_categories) ==
    IF selected_categories # {}
    THEN SelectSeq(rows, LAMBDA r : r.category \in selected_categories)
    ELSE rows

\* filtered_expenses as the history tab computes it
FilterExpenses(rows, date_filter, start_date, end_date, selected_categories) ==
    CategoryFilter(DateFilter(rows, date_filter, start_date, end_date), selected_categories)

NoDate == 0 - 1     \* start_date and end_date are unbound unless the filter is "Custom"

DateFilterChoices ==
    {<<f, NoDate, NoDate>> : f \in {"All time", "This month", "Last 7 days"}}
    \cup {<<"Custom", s, e>> : s \in CustomRangeDates, e \in CustomRangeDates}


\* HistoryTab without the test for an empty ledger
HistoryTabNoGuard(rows, submit_button, date_filter, start_date, end_date, selected_categories) ==
    LET filtered_expenses ==
            FilterExpenses(rows, date_filter, start_date, end_date, selected_categories)
    IN  [rendered |-> TRUE, submit_button |-> submit_button, history |-> TRUE,
         date_filter |-> date_filter, start_date |-> start_date, end_date |-> end_date,
         all_categories |-> Unique([i \in 1..Len(rows) |-> rows[i].category]),
         selected_categories |-> selected_categories,
         filtered_expenses |-> filtered_expenses,
         message |-> IF filtered_expenses = <<>>
                     THEN "No expenses match your filters." ELSE "Total",
         total_filtered |-> SumAmounts(filtered_expenses)]

\* tab2 of show_expense_tracker
HistoryTab(rows, submit_button, date_filter, start_date, end_date, selected_categories) ==
    IF rows = <<>>
    THEN [rendered |-> TRUE, submit_button |-> submit_button, history |-> FALSE,
          message |-> "No expenses recorded yet. Start by adding your first expense!"]
    ELSE LET filtered_expenses ==
                 FilterExpenses(rows, date_filter, start_date, end_date, selected_categories)
         IN  [rendered |-> TRUE, submit_button |-> submit_button, history |-> TRUE,
              date_filter |-> date_filter, start_date |-> start_date, end_date |-> end_date,
              all_categories |-> Unique([i \in 1..Len(rows) |-> rows[i].category]),
              selected_categories |-> selected_categories,
              filtered_expenses |-> filtered_expenses,
              message |-> IF filtered_expenses = <<>>
                          THEN "No expenses match your filters." ELSE "Total",
              total_filtered |-> SumAmounts(filtered_expenses)]

\* one run of the script with the Expense Tracker page selected: the expense form
\* (submitted or not) and the history tab with its filter widgets
show_expense_tracker(submit_button, date, amount, category, description, date_filter, start_date, end_date, selected_categories) ==
    /\ submit_button => Len(expenses) < MaxLedger /\ category \in Range(categories)
    /\ expenses' = IF submit_button
                   THEN Concat(expenses, new_expense(date, amount, category, description))
                   ELSE expenses
    /\ tracker' = HistoryTab(expenses', submit_button, date_filter, start_date, end_date,
                             selected_categories)
    /\ page' = "Expense Tracker"
    /\ dashboard' = NotRendered
    /\ manager' = NotRendered
    /\ planner' = NotRendered
    /\ UNCHANGED <<budgets, budget_categories, day_percentages, calc, chart>>

\* the categories present in the ledger: the options of the multiselect
CategoriesIn(rows) == {rows[i].category : i \in 1..Len(rows)}

\* the sidebar radio selects the Expense Tracker: every widget is at its default
NavigateExpenseTracker ==
    /\ page # "Expense Tracker"
    /\ show_expense_tracker(FALSE, Today, 0, categories[1], "",
                            "All time", NoDate, NoDate, CategoriesIn(expenses))

\* the user changes the date radio, the custom range or the multiselect of the history tab
FilterHistory ==
    /\ page = "Expense Tracker"
    /\ tracker.history
    /\ \E f \in DateFilterChoices, selected_categories \in SUBSET CategoriesIn(expenses) :
          show_expense_tracker(FALSE, Today, 0, categories[1], "",
                               f[1], f[2], f[3], selected_categories)

\* the user submits the expense form; the filter widgets keep their values, and the
\* multiselect falls back to its default when its options change
AddExpense ==
    /\ page = "Expense Tracker"
    /\ \E e \in ExpenseInputs, description \in Descriptions, reset \in BOOLEAN :
          LET options == CategoriesIn(expenses) \cup {e[3]}
              kept == tracker.history /\ (~reset \/ options = CategoriesIn(expenses))
          IN  show_expense_tracker(TRUE, e[1], e[2], e[3], description,
                   IF tracker.history THEN tracker.date_filter ELSE "All time",
                   IF tracker.history THEN tracker.start_date ELSE NoDate,
                   IF tracker.history THEN tracker.end_date ELSE NoDate,
                   IF kept THEN tracker.selected_categories ELSE options)

----------------------------------------------------------------------------
(* Charts, data_visualization.py *)

MaxRows == 2            \* a DataFrame handed to a plot holds at most this many rows

\* Mon 2024-01-08 (ISO week 2) and Mon 2024-03-04 (ISO week 10)
ChartDates == {7, 63}
ChartAmounts == {3, 4}
ChartCategories == {"Food & Drinks", "Groceries"}

\* the DataFrames handed to the plots
DataFrames ==
    UNION { [1..n -> [date : ChartDates, amount : ChartAmounts,
                      category : ChartCategories, description : Descriptions]] : n \in 0..MaxRows }

\* groupby('category')['amount'].sum() with the count of the rows in place of their sum
GroupByCategoryCount(rows) ==
    [c \in CategoriesIn(rows) |-> Len(RowsOfCategory(rows, c))]

\* expenses_df.groupby('category')['amount'].sum()
GroupByCategory(rows) ==
    [c \in CategoriesIn(rows) |-> SumAmounts(RowsOfCategory(rows, c))]

\* plot_expense_by_category(expenses_df) with a DataFrame given
plot_expense_by_category(expenses_df) ==
    IF expenses_df = <<>>
    THEN [rendered |-> TRUE, plot |-> "plot_expense_by_category", expenses_df |-> expenses_df,
          message |-> "No expenses match your current filters."]
    ELSE [rendered |-> TRUE, plot |-> "plot_expense_by_category", expenses_df |-> expenses_df,
          message |-> "chart", category_totals |-> GroupByCategory(expenses_df)]

\* a string is the sequence of the code points of its characters
RECURSIVE Str(_)
\* str(n) and astype(str) of a non-negative integer: decimal digits, no padding
Str(n) == IF n < 10 THEN <<48 + n>> ELSE Str(n \div 10) \o <<48 + (n % 10)>>

\* '%m': the month as two digits
TwoDigits(n) == <<48 + (n \div 10), 48 + (n % 10)>>

\* .dt.isocalendar().week of a date of 2024 (2024-01-01 is a Monday; Dec 30 and 31 are in week 1 of 2025)
IsoWeek(d) == IF d < 364 THEN (d \div 7) + 1 ELSE ((d - 364) \div 7) + 1

\* .dt.isocalendar().year
IsoYear(d) == IF d < 364 THEN 2024 ELSE 2025

\* expenses_df['period'] of one row
PeriodKey(d, period) ==
    CASE period = "daily" -> <<d>>
      [] period = "weekly" -> Str(IsoYear(d)) \o <<45, 87>> \o Str(IsoWeek(d))
      [] period = "monthly" -> Str(YearOf(d)) \o <<45>> \o TwoDigits(MonthOf(d))

\* a < b for two keys of a group: dates by time, strings by code point
LexLess(a, b) ==
    \E k \in 1..Len(b) :
        /\ k - 1 <= Len(a)
        /\ \A i \in 1..(k - 1) : a[i] = b[i]
        /\ (k = Len(a) + 1 \/ (k <= Len(a) /\ a[k] < b[k]))

RECURSIVE SortKeys(_)
\* the group keys in the ascending order groupby puts them in
SortKeys(keys) ==
    IF keys = {} THEN <<>>
    ELSE LET first == CHOOSE x \in keys : \A y \in keys \ {x} : LexLess(x, y)
         IN  <<first>> \o SortKeys(keys \ {first})

\* expenses_df.groupby('period')['amount'].sum().reset_index()
GroupByPeriod(rows, period) ==
    LET keys == SortKeys({PeriodKey(rows[i].date, period) : i \in 1..Len(rows)})
    IN  [k \in 1..Len(keys) |->
            [period |-> keys[k],
             amount |-> SumAmounts(SelectSeq(rows,
                            LAMBDA r : PeriodKey(r.date, period) = keys[k]))]]

\* plot_expense_over_time(expenses_df, period) with a DataFrame given
plot_expense_over_time(expenses_df, period) ==
    IF expenses_df = <<>>
    THEN [rendered |-> TRUE, plot |-> "plot_expense_over_time", expenses_df |-> expenses_df,
          period |-> period, message |-> "No expenses match your current filters."]
    ELSE [rendered |-> TRUE, plot |-> "plot_expense_over_time", expenses_df |-> expenses_df,
          period |-> period, message |-> "chart",
          period_totals |-> GroupByPeriod(expenses_df, period)]

\* a call of plot_expense_by_category
PlotExpenseByCategory ==
    \E expenses_df \in DataFrames :
        /\ chart' = plot_expense_by_category(expenses_df)
        /\ calc' = NotRendered
        /\ UNCHANGED <<expenses, budgets, budget_categories, day_percentages, page, dashboard,
                       tracker, manager, planner>>

\* a call of plot_expense_over_time
PlotExpenseOverTime ==
    \E expenses_df \in DataFrames, period \in {"daily", "weekly", "monthly"} :
        /\ chart' = plot_expense_over_time(expenses_df, period)
        /\ calc' = NotRendered
        /\ UNCHANGED <<expenses, budgets, budget_categories, day_percentages, page, dashboard,
                       tracker, manager, planner>>

----------------------------------------------------------------------------
(* Budget Manager page, budget_manager.py *)

\* if 'budget_categories' not in st.session_state: ... (the key is absent while the list is <<>>)
InitBudgetCategories(registry) ==
    IF registry = <<>> THEN DefaultCategories ELSE registry

\* dict.get(key, default)
Get(dict, key, default) == IF key \in DOMAIN dict THEN dict[key] ELSE default

\* st.number_input(..., value=current_budget, key=f"budget_{category}") inside the form:
\* the value the user submitted for this widget, else the existing budget
new_budget(allocation, category, submit_button, edits) ==
    IF submit_button /\ category \in DOMAIN edits
    THEN edits[category]
    ELSE Get(allocation, category, 0)

\* the loop over categories_to_budget: st.session_state.budgets[category] = new_budget
StoreBudgets(registry, allocation, submit_button, edits) ==
    [c \in DOMAIN allocation \cup Range(registry) |->
        IF c \in Range(registry)
        THEN new_budget(allocation, c, submit_button, edits)
        ELSE allocation[c]]

\* AddCustomCategory without the test for an empty name
AddCustomCategoryEmptyName(registry, allocation, new_category, new_category_budget) ==
    IF new_category \notin Range(registry)
    THEN [budget_categories |-> Append(registry, new_category),
          budgets |-> [c \in DOMAIN allocation \cup {new_category} |->
                          IF c = new_category THEN new_category_budget ELSE allocation[c]],
          log |-> << <<"budget_categories", new_category>>, <<"budgets", new_category>> >>]
    ELSE [budget_categories |-> registry, budgets |-> allocation, log |-> <<>>]

\* AddCustomCategory that stores the budget of the new category without registering it
AddCustomCategoryNoAppend(registry, allocation, new_category, new_category_budget) ==
    IF new_category # "" /\ new_category \notin Range(registry)
    THEN [budget_categories |-> registry,
          budgets |-> [c \in DOMAIN allocation \cup {new_category} |->
                          IF c = new_category THEN new_category_budget ELSE allocation[c]],
          log |-> << <<"budgets", new_category>> >>]
    ELSE [budget_categories |-> registry, budgets |-> allocation, log |-> <<>>]

\* AddCustomCategory that registers the new category and drops its budget
AddCustomCategoryNoBudget(registry, allocation, new_category, new_category_budget) ==
    IF new_category # "" /\ new_category \notin Range(registry)
    THEN [budget_categories |-> Append(registry, new_category),
          budgets |-> allocation,
          log |-> << <<"budget_categories", new_category>> >>]
    ELSE [budget_categories |-> registry, budgets |-> allocation, log |-> <<>>]

\* AddCustomCategory without the test for an already registered name
AddCustomCategoryUnchecked(registry, allocation, new_category, new_category_budget) ==
    IF new_category # ""
    THEN [budget_categories |-> Append(registry, new_category),
          budgets |-> [c \in DOMAIN allocation \cup {new_category} |->
                          IF c = new_category THEN new_category_budget ELSE allocation[c]],
          log |-> << <<"budget_categories", new_category>>, <<"budgets", new_category>> >>]
    ELSE [budget_categories |-> registry, budgets |-> allocation, log |-> <<>>]

\* if new_category and new_category not in st.session_state.budget_categories: ...
\* log lists the session-state writes in the order the statements run
AddCustomCategory(registry, allocation, new_category, new_category_budget) ==
    IF new_category # "" /\ new_category \notin Range(registry)
    THEN LET appended == Append(registry, new_category)
         IN  [budget_categories |-> appended,
              budgets |-> [c \in DOMAIN allocation \cup {new_category} |->
                              IF c = new_category THEN new_category_budget ELSE allocation[c]],
              log |-> << <<"budget_categories", new_category>>, <<"budgets", new_category>> >>]
    ELSE [budget_categories |-> registry, budgets |-> allocation, log |-> <<>>]

\* tab1 of show_budget_manager: the budget form and its submit handler
BudgetForm(registry, allocation, submit_button, edits, new_category, new_category_budget) ==
    LET stored == StoreBudgets(registry, allocation, submit_button, edits)
    IN  IF submit_button
        THEN AddCustomCategory(registry, stored, new_category, new_category_budget)
        ELSE [budget_categories |-> registry, budgets |-> stored, log |-> <<>>]

\* the expenses of the analysed period
PeriodExpenses(rows, budget_period) ==
    IF budget_period = "Monthly"
    THEN ThisMonth(rows)
    ELSE LET start_of_week == Today - Weekday(Today)
         IN  SelectSeq(rows, LAMBDA r : r.date >= start_of_week)

\* category_spending: total spent per registered category
CategorySpending(registry, monthly_expenses) ==
    [c \in Range(registry) |-> SumAmounts(RowsOfCategory(monthly_expenses, c))]

\* the exception a division by zero raises
ZeroDivisionError == [error |-> "ZeroDivisionError"]

\* a / b of Python, kept as an exact fraction
Divide(a, b) == IF b = 0 THEN ZeroDivisionError ELSE [num |-> a, den |-> b]

\* min(100, (spent / budget) * 100) if budget > 0 else 0
Percentage(spent, budget) ==
    IF budget > 0
    THEN LET q == Divide(spent, budget)
         IN  IF q = ZeroDivisionError THEN ZeroDivisionError
             ELSE IF q.num * 100 > 100 * q.den
                  THEN [num |-> 100 * q.den, den |-> q.den]
                  ELSE [num |-> q.num * 100, den |-> q.den]
    ELSE [num |-> 0, den |-> 1]

\* Color with the red threshold exclusive
ColorStrict(percentage) ==
    IF percentage.num > 80 * percentage.den THEN "red"
    ELSE IF percentage.num >= 60 * percentage.den THEN "orange"
    ELSE "green"

\* color = "green"; if percentage >= 80: "red"; elif percentage >= 60: "orange"
Color(percentage) ==
    IF percentage.num >= 80 * percentage.den THEN "red"
    ELSE IF percentage.num >= 60 * percentage.den THEN "orange"
    ELSE "green"

\* BudgetAlert that reports an exhausted budget as over budget
BudgetAlertInclusive(budget, spent) ==
    LET remaining == budget - spent
    IN  IF remaining <= 0
        THEN [kind |-> "Over budget by", amount |-> IF remaining < 0 THEN 0 - remaining ELSE remaining]
        ELSE IF 10 * remaining < budget * 2
             THEN [kind |-> "Only left in budget", amount |-> remaining]
             ELSE [kind |-> "none", amount |-> 0]

\* the st.error / st.warning under the progress bar
BudgetAlert(budget, spent) ==
    LET remaining == budget - spent
    IN  IF remaining < 0
        THEN [kind |-> "Over budget by", amount |-> IF remaining < 0 THEN 0 - remaining ELSE remaining]
        ELSE IF 10 * remaining < budget * 2
             THEN [kind |-> "Only left in budget", amount |-> remaining]
             ELSE [kind |-> "none", amount |-> 0]

\* the progress bar of one category
ProgressEntry(category, budget, category_spending) ==
    LET spent == Get(category_spending, category, 0)
        percentage == Percentage(spent, budget)
    IN  [category |-> category, budget |-> budget, spent |-> spent,
         percentage |-> percentage,
         color |-> IF percentage = ZeroDivisionError THEN "ZeroDivisionError" ELSE Color(percentage),
         remaining |-> budget - spent,
         alert |-> BudgetAlert(budget, spent)]

\* ShownCategories that keeps the categories with a zero budget
ShownCategoriesAll(allocation) == {c \in DOMAIN allocation : allocation[c] >= 0}

\* if budget > 0:  # Only show categories with budget set
ShownCategories(allocation) == {c \in DOMAIN allocation : allocation[c] > 0}

RECURSIVE SumValues(_)
\* sum(dict.values())
SumValues(dict) ==
    IF DOMAIN dict = {} THEN 0
    ELSE LET k == CHOOSE k \in DOMAIN dict : TRUE
         IN  dict[k] + SumValues([c \in DOMAIN dict \ {k} |-> dict[c]])

\* plot_budget_vs_actual of data_visualization.py, called at the end of the analysis
plot_budget_vs_actual(rows, allocation) ==
    IF rows = <<>> \/ DOMAIN allocation = {}
    THEN [message |->
             "Both expense data and budget settings are needed for this visualization."]
    ELSE LET category_expenses == GroupByCategory(ThisMonth(rows))
         IN  [message |-> "chart",
              comparison |-> [c \in ShownCategories(allocation) |->
                                 [Budget |-> allocation[c],
                                  Actual |-> Get(category_expenses, c, 0)]]]

\* tab2 of show_budget_manager
BudgetAnalysis(registry, allocation, rows, budget_period) ==
    IF DOMAIN allocation = {} \/ \A c \in DOMAIN allocation : allocation[c] = 0
    THEN [shown |-> FALSE,
          message |-> "Please set your budgets in the 'Set Budgets' tab to see analysis."]
    ELSE LET monthly_expenses == PeriodExpenses(rows, budget_period)
             category_spending == CategorySpending(registry, monthly_expenses)
         IN  [shown |-> TRUE,
              monthly_expenses |-> monthly_expenses,
              category_spending |-> category_spending,
              progress |-> [c \in ShownCategories(allocation) |->
                               ProgressEntry(c, allocation[c], category_spending)],
              total_budget |-> SumValues(allocation),
              total_spent |-> SumValues(category_spending),
              budget_vs_actual |-> plot_budget_vs_actual(rows, allocation)]

NoEdits == [c \in {} |-> 0]

\* the values the user may have typed into the per-category inputs: at most one per submit
EditChoices(registry) ==
    {NoEdits} \cup {[c \in {e} |-> v] : e \in EditableCategories \cap Range(registry),
                                         v \in BudgetAmounts}

\* one run of the script with the Budget Manager page selected
show_budget_manager(budget_period, submit_button, edits, new_category, new_category_budget) ==
    /\ LET saved == BudgetForm(InitBudgetCategories(budget_categories), budgets,
                               submit_button, edits, new_category, new_category_budget)
       IN  /\ budget_categories' = saved.budget_categories
           /\ budgets' = saved.budgets
           /\ manager' = [rendered |-> TRUE, budget_period |-> budget_period,
                          submit_button |-> submit_button, edits |-> edits,
                          new_category |-> new_category,
                          new_category_budget |-> new_category_budget,
                          log |-> saved.log,
                          analysis |-> BudgetAnalysis(saved.budget_categories,
                                          saved.budgets, expenses, budget_period)]
    /\ page' = "Budget Manager"
    /\ dashboard' = NotRendered
    /\ tracker' = NotRendered
    /\ planner' = NotRendered
    /\ UNCHANGED <<expenses, day_percentages, calc, chart>>

\* the sidebar radio selects the Budget Manager: every widget is at its default
NavigateBudgetManager ==
    /\ page # "Budget Manager"
    /\ show_budget_manager("Monthly", FALSE, NoEdits, "", 0)

\* the user changes the budget period selectbox
SelectBudgetPeriod ==
    /\ page = "Budget Manager"
    /\ \E budget_period \in {"Monthly", "Weekly"} :
          show_budget_manager(budget_period, FALSE, NoEdits, "", 0)

\* the user presses Save Budget Settings
SaveBudgetSettings ==
    /\ page = "Budget Manager"
    /\ \E edits \in EditChoices(budget_categories), new_category \in NewCategoryInputs,
          new_category_budget \in NewCategoryBudgets :
          show_budget_manager(manager.budget_period, TRUE, edits,
                              new_category, new_category_budget)

----------------------------------------------------------------------------
(* The Dashboard page, app.py *)

\* the page of app.py under `if page == "Dashboard":`
show_dashboard(rows, allocation) ==
    IF rows = <<>>
    THEN [rendered |-> TRUE, summary |-> FALSE,
          message |-> "Start tracking your expenses to see your financial summary here!"]
    ELSE [rendered |-> TRUE, summary |-> TRUE, message |-> "summary",
          total_expenses |-> SumAmounts(rows),
          monthly_expenses |-> SumAmounts(ThisMonth(rows)),
          today_expenses |-> SumAmounts(SelectSeq(rows, LAMBDA r : r.date = Today)),
          budget_vs_actual |->
              IF DOMAIN allocation # {}
              THEN plot_budget_vs_actual(rows, allocation)
              ELSE [message |->
                       "Set up your budgets in the Budget Manager to see comparisons here."],
          breakdown |-> plot_expense_by_category(rows)]

\* the sidebar radio selects the Dashboard
NavigateDashboard ==
    /\ page # "Dashboard"
    /\ page' = "Dashboard"
    /\ dashboard' = show_dashboard(expenses, budgets)
    /\ tracker' = NotRendered
    /\ manager' = NotRendered
    /\ planner' = NotRendered
    /\ UNCHANGED <<expenses, budgets, budget_categories, day_percentages, calc, chart>>

----------------------------------------------------------------------------
(* The Spending Planner page, app.py.  A percentage is a whole number of *)
(* tenths of a percent, the step of the inputs.                          *)

PocketMoneyInputs == {0, 100, 500, 700, 1000, 1400, 2000, 3000}

\* st.session_state.day_percentages = [14.3, 14.3, 14.3, 14.3, 14.3, 14.3, 14.2]
DefaultDayPercentages == <<143, 143, 143, 143, 143, 143, 142>>

\* the percentages the user may hold in the seven inputs: the stored ones, or Monday or
\* Sunday changed
PercentageInputs ==
    {DefaultDayPercentages} \cup
    {[DefaultDayPercentages EXCEPT ![1] = v] : v \in {144, 200, 0}} \cup
    {[DefaultDayPercentages EXCEPT ![7] = v] : v \in {143, 200, 0}}

RECURSIVE SumSeq(_)
\* total_percentage += pct, over the seven inputs
SumSeq(seq) == IF seq = <<>> THEN 0 ELSE seq[1] + SumSeq(Tail(seq))

\* default_distribution = [1/7] * 7
default_distribution == [d \in 1..7 |-> [num |-> 1, den |-> 7]]

\* the distribution the planner uses: abs(total_percentage - 100.0) > 0.1 falls back to
\* the equal one
distribution(custom_dist, percentages) ==
    IF custom_dist
    THEN LET total_percentage == SumSeq(percentages)
         IN  IF total_percentage - 1000 > 1 \/ 1000 - total_percentage > 1
             THEN default_distribution
             ELSE [d \in 1..7 |-> [num |-> percentages[d], den |-> 1000]]
    ELSE default_distribution

\* one run of the script with the Spending Planner page selected
show_spending_planner(pocket_money, custom_dist, percentages) ==
    LET dist == distribution(custom_dist, percentages)
    IN  /\ planner' = [rendered |-> TRUE, pocket_money |-> pocket_money,
                       custom_dist |-> custom_dist,
                       percentages |-> IF custom_dist THEN percentages ELSE <<>>,
                       total_percentage |-> IF custom_dist THEN SumSeq(percentages) ELSE 0,
                       message |-> IF custom_dist /\ dist = default_distribution
                                   THEN "Total percentage must be 100%." ELSE "",
                       distribution |-> dist,
                       daily_amounts |-> [d \in 1..7 |->
                                             [num |-> pocket_money * dist[d].num,
                                              den |-> dist[d].den]]]
        /\ day_percentages' = IF custom_dist THEN percentages ELSE day_percentages
        /\ page' = "Spending Planner"
        /\ dashboard' = NotRendered
        /\ tracker' = NotRendered
        /\ manager' = NotRendered
        /\ UNCHANGED <<expenses, budgets, budget_categories, calc, chart>>

\* the sidebar radio selects the Spending Planner: every widget is at its default
NavigateSpendingPlanner ==
    /\ page # "Spending Planner"
    /\ show_spending_planner(1000, FALSE, <<>>)

\* the user changes the pocket money, the checkbox or a percentage; without the checkbox
\* no percentage input is shown
PlanSpending ==
    /\ page = "Spending Planner"
    /\ \E pocket_money \in PocketMoneyInputs, custom_dist \in BOOLEAN,
          percentages \in PercentageInputs :
          show_spending_planner(pocket_money, custom_dist,
                                IF custom_dist THEN percentages ELSE <<>>)

----------------------------------------------------------------------------
(* The page that reads no session state while nothing is calculated, app.py *)

ReadOnlyPages == {"Investment Calculator"}

show_read_only_page ==
    \E p \in ReadOnlyPages :
        /\ page # p
        /\ page' = p
        /\ dashboard' = NotRendered
        /\ tracker' = NotRendered
        /\ manager' = NotRendered
        /\ planner' = NotRendered
        /\ UNCHANGED <<expenses, budgets, budget_categories, day_percentages, calc, chart>>

----------------------------------------------------------------------------
(* The session *)

\* the first run of the script: the session state is created, the Dashboard is shown
Init ==
    /\ expenses = EmptyExpenses
    /\ budgets = EmptyBudgets
    /\ budget_categories = <<>>
    /\ day_percentages = <<>>
    /\ page = "Dashboard"
    /\ dashboard = show_dashboard(EmptyExpenses, EmptyBudgets)
    /\ tracker = NotRendered
    /\ manager = NotRendered
    /\ planner = NotRendered
    /\ calc = NotRendered
    /\ chart = NotRendered

Next ==
    \/ NavigateDashboard
    \/ NavigateSpendingPlanner
    \/ NavigateExpenseTracker
    \/ FilterHistory
    \/ AddExpense
    \/ NavigateBudgetManager
    \/ SelectBudgetPeriod
    \/ SaveBudgetSettings
    \/ show_read_only_page

Spec == Init /\ [][Next]_vars

----------------------------------------------------------------------------
(* Investment Calculator page, Investment_Calculator.py *)

MaxYears == 2           \* time_years is at most this many years

MonthlyInvestments == {100, 1000}       \* number_input, min_value=100
InvestmentAmounts == {1000, 10000}      \* number_input, min_value=1000
AnnualReturnRates == {6, 12}            \* slider 1.0 .. 30.0, in percent
InflationRates == {0, 6}                \* slider 0.0 .. 15.0, in percent

RECURSIVE GCD(_, _)
GCD(a, b) == IF b = 0 THEN a ELSE GCD(b, a % b)

\* an exact fraction in lowest terms
Fraction(num, den) == [num |-> num \div GCD(num, den), den |-> den \div GCD(num, den)]

RECURSIVE Power(_, _)
\* base ** exponent for a natural exponent
Power(base, exponent) == IF exponent = 0 THEN 1 ELSE base * Power(base, exponent - 1)

\* (1 + annual_return_rate/100) ** (1/12) - 1, kept unevaluated. A value that grows at
\* this rate is a polynomial in g = 1 + monthly_rate: the sequence of the coefficients
\* of g^0, g^1, ...
monthly_rate(annual_return_rate) ==
    [root |-> 12, of |-> Fraction(100 + annual_return_rate, 100), minus |-> 1]

\* value * (1 + monthly_rate)
TimesGrowth(value) == <<0>> \o value

\* value + amount
PlusAmount(value, amount) == [value EXCEPT ![1] = @ + amount]

RECURSIVE investment_valueGrowthAfter(_, _)
\* investment_value with the month's contribution added before the growth is applied
investment_valueGrowthAfter(monthly_investment, month) ==
    IF month = 0
    THEN <<monthly_investment>>
    ELSE TimesGrowth(PlusAmount(investment_valueGrowthAfter(monthly_investment, month - 1),
                                monthly_investment))

RECURSIVE investment_value(_, _)
\* investment_value[month] of calculate_sip_returns, month counted from 0
investment_value(monthly_investment, month) ==
    IF month = 0
    THEN <<monthly_investment>>
    ELSE PlusAmount(TimesGrowth(investment_value(monthly_investment, month - 1)),
                    monthly_investment)

RECURSIVE total_investment(_, _)
\* total_investment[month] of calculate_sip_returns, month counted from 0
total_investment(monthly_investment, month) ==
    IF month = 0
    THEN monthly_investment
    ELSE total_investment(monthly_investment, month - 1) + monthly_investment

\* calculate_sip_returns: the rows of result_df
calculate_sip_returns(monthly_investment, annual_return_rate, time_years) ==
    LET total_months == time_years * 12
    IN  [n \in 1..total_months |->
            [Month |-> n,
             Total_Investment |-> total_investment(monthly_investment, n - 1),
             Investment_Value |-> investment_value(monthly_investment, n - 1)]]

\* simple interest in place of compounding: investment_amount * (1 + year * annual_return_rate/100)
lumpsum_valueSimpleInterest(investment_amount, annual_return_rate, year) ==
    [num |-> investment_amount * (100 + annual_return_rate * year), den |-> 100]

\* investment_amount * ((1 + annual_return_rate/100) ** year), as an exact fraction
lumpsum_value(investment_amount, annual_return_rate, year) ==
    LET growth == Fraction(100 + annual_return_rate, 100)
    IN  [num |-> investment_amount * Power(growth.num, year),
         den |-> Power(growth.den, year)]

\* calculate_lumpsum_returns: the rows of result_df, one per year 0 .. time_years
calculate_lumpsum_returns(investment_amount, annual_return_rate, time_years) ==
    [i \in 1..(time_years + 1) |->
        [Year |-> i - 1,
         Investment_Value |-> lumpsum_value(investment_amount, annual_return_rate, i - 1)]]

\* (1 + annual_return_rate/100) / (1 + inflation_rate/100) - 1, as an exact fraction
real_return_rate(annual_return_rate, inflation_rate) ==
    Fraction(annual_return_rate - inflation_rate, 100 + inflation_rate)

\* monthly_investment * (((1 + r) ** (time_years * 12) - 1) / r) * (1 + r): the quotient
\* raises ZeroDivisionError for r = 0, otherwise the closed form is kept unevaluated
sip_inflation_adj_final(monthly_investment, rate, time_years) ==
    IF Divide(1, rate.num) = ZeroDivisionError
    THEN ZeroDivisionError
    ELSE [annuity_due_of |-> monthly_investment, rate |-> rate, periods |-> time_years * 12]

\* inflation_factor with the inflation rate taken one percentage point too high
inflation_factorPlusOne(inflation_rate, exponent) ==
    LET base == Fraction(100 + inflation_rate + 1, 100)
    IN  IF base.num = base.den
        THEN [num |-> 1, den |-> 1]
        ELSE IF exponent.den = 1
             THEN [num |-> Power(base.num, exponent.num), den |-> Power(base.den, exponent.num)]
             ELSE [base |-> base, exponent |-> exponent]

\* inflation_factor = (1 + inflation_rate/100) ** exponent: 1 for a base of 1, an exact
\* fraction for a whole exponent, otherwise irrational and kept unevaluated
inflation_factor(inflation_rate, exponent) ==
    LET base == Fraction(100 + inflation_rate, 100)
    IN  IF base.num = base.den
        THEN [num |-> 1, den |-> 1]
        ELSE IF exponent.den = 1
             THEN [num |-> Power(base.num, exponent.num), den |-> Power(base.den, exponent.num)]
             ELSE [base |-> base, exponent |-> exponent]

\* the inflation-adjusted line of the SIP chart: for month in range(1, time_years * 12 + 1),
\* Investment_Value.iloc[month-1] / inflation_factor, a polynomial over a divisor
sip_inflation_adj_values(sip_results, inflation_rate, time_years) ==
    [month \in 1..(time_years * 12) |->
        [dividend |-> sip_results[month].Investment_Value,
         divisor |-> inflation_factor(inflation_rate, Fraction(month, 12))]]

\* value / factor for two exact fractions, cancelling before multiplying
Quotient(value, factor) ==
    LET v == Fraction(value.num, value.den)
        f == Fraction(factor.num, factor.den)
        g1 == GCD(v.num, f.num)
        g2 == GCD(f.den, v.den)
    IN  [num |-> (v.num \div g1) * (f.den \div g2), den |-> (v.den \div g2) * (f.num \div g1)]

\* the inflation-adjusted line of the lump-sum chart: for year in range(time_years + 1),
\* Investment_Value.iloc[year] / inflation_factor
lumpsum_inflation_adj_values(lumpsum_results, inflation_rate, time_years) ==
    [i \in 1..(time_years + 1) |->
        Quotient(lumpsum_results[i].Investment_Value,
                 inflation_factor(inflation_rate, [num |-> i - 1, den |-> 1]))]

\* the SIP tab after Calculate SIP Returns
sip_calculator(monthly_investment, annual_return_rate, time_years, inflation_rate) ==
    LET sip_results == calculate_sip_returns(monthly_investment, annual_return_rate, time_years)
        rate == real_return_rate(annual_return_rate, inflation_rate)
        inflation_adj_final == sip_inflation_adj_final(monthly_investment, rate, time_years)
    IN  [rendered |-> TRUE, tab |-> "SIP Calculator",
         monthly_investment |-> monthly_investment,
         annual_return_rate |-> annual_return_rate,
         time_years |-> time_years, inflation_rate |-> inflation_rate,
         monthly_rate |-> monthly_rate(annual_return_rate),
         sip_results |-> sip_results,
         total_invested |-> monthly_investment * time_years * 12,
         final_value |-> sip_results[Len(sip_results)].Investment_Value,
         real_return_rate |-> rate,
         inflation_adj_final |-> inflation_adj_final,
         exception |-> inflation_adj_final = ZeroDivisionError,
         inflation_adj_values |->
             IF inflation_adj_final = ZeroDivisionError
             THEN <<>>
             ELSE sip_inflation_adj_values(sip_results, inflation_rate, time_years)]

\* the Lumpsum tab after Calculate Lumpsum Returns
lumpsum_calculator(investment_amount, annual_return_rate, time_years, inflation_rate) ==
    LET lumpsum_results ==
            calculate_lumpsum_returns(investment_amount, annual_return_rate, time_years)
        rate == real_return_rate(annual_return_rate, inflation_rate)
    IN  [rendered |-> TRUE, tab |-> "Lumpsum Calculator",
         investment_amount |-> investment_amount,
         annual_return_rate |-> annual_return_rate,
         time_years |-> time_years, inflation_rate |-> inflation_rate,
         lumpsum_results |-> lumpsum_results,
         final_value |-> lumpsum_results[Len(lumpsum_results)].Investment_Value,
         real_return_rate |-> rate,
         inflation_adj_final |->
             [num |-> investment_amount * Power(rate.num + rate.den, time_years),
              den |-> Power(rate.den, time_years)],
         exception |-> FALSE,
         inflation_adj_values |->
             lumpsum_inflation_adj_values(lumpsum_results, inflation_rate, time_years)]

\* the user presses Calculate SIP Returns
CalculateSip ==
    \E monthly_investment \in MonthlyInvestments, annual_return_rate \in AnnualReturnRates,
       time_years \in 1..MaxYears, inflation_rate \in InflationRates :
        /\ calc' = sip_calculator(monthly_investment, annual_return_rate,
                                  time_years, inflation_rate)
        /\ page' = "Investment Calculator"
        /\ dashboard' = NotRendered
        /\ tracker' = NotRendered
        /\ manager' = NotRendered
        /\ planner' = NotRendered
        /\ chart' = NotRendered
        /\ UNCHANGED <<expenses, budgets, budget_categories, day_percentages>>

\* the user presses Calculate Lumpsum Returns
CalculateLumpsum ==
    \E investment_amount \in InvestmentAmounts, annual_return_rate \in AnnualReturnRates,
       time_years \in 1..MaxYears, inflation_rate \in InflationRates :
        /\ calc' = lumpsum_calculator(investment_amount, annual_return_rate,
                                      time_years, inflation_rate)
        /\ page' = "Investment Calculator"
        /\ dashboard' = NotRendered
        /\ tracker' = NotRendered
        /\ manager' = NotRendered
        /\ planner' = NotRendered
        /\ chart' = NotRendered
        /\ UNCHANGED <<expenses, budgets, budget_categories, day_percentages>>

----------------------------------------------------------------------------
(* The calculations and charts on their own, from a fresh session *)

ToolsNext ==
    \/ PlotExpenseByCategory
    \/ PlotExpenseOverTime
    \/ CalculateSip
    \/ CalculateLumpsum

ToolsSpec == Init /\ [][ToolsNext]_vars

----------------------------------------------------------------------------
(* The Spending Planner on its own, from a fresh session *)

PlannerNext ==
    \/ NavigateSpendingPlanner
    \/ PlanSpending

PlannerSpec == Init /\ [][PlannerNext]_vars

----------------------------------------------------------------------------
(* Properties *)

\* the run that produced the current state was a submit of the budget form
BudgetSubmitted == manager.rendered /\ manager.submit_button

\* C1: the ledger is append-only. Every step keeps the stored records as a prefix of the
\* new ledger, unchanged and in place, adds at most one record, and a submit of the
\* expense form adds exactly one record at the end.
C1_LedgerAppendOnly ==
    [][ /\ Len(expenses') >= Len(expenses)
        /\ Len(expenses') <= Len(expenses) + 1
        /\ SubSeq(expenses', 1, Len(expenses)) = expenses
        /\ (tracker'.rendered /\ tracker'.submit_button) =>
              /\ Len(expenses') = Len(expenses) + 1
              /\ expenses'[Len(expenses')] \in
                    {[date |-> e[1], amount |-> e[2], category |-> e[3], description |-> d] :
                        e \in ExpenseInputs, d \in Descriptions} ]_vars

\* two different records are stored and a budget form submit has run after them
C1_Witness ==
    /\ Len(expenses) >= 2
    /\ expenses[1] # expenses[2]
    /\ BudgetSubmitted

\* C2: in every reachable state every key of the budget allocation map is a member of the
\* category registry.
C2_BudgetKeysRegistered == DOMAIN budgets \subseteq Range(budget_categories)

\* a custom category has a budget and the page was rendered again without a submit
C2_Witness ==
    /\ \E c \in DOMAIN budgets : c \notin Range(DefaultCategories)
    /\ manager.rendered
    /\ ~manager.submit_button

\* C3: a submit that names an unregistered category appends it to the registry and then
\* stores its submitted budget, in that order and in the same run; in every state a
\* registered custom category has an allocation and an allocated one is registered.
C3_NewCategoryAllOrNothing ==
    /\ [](\A c \in Range(budget_categories) \cup DOMAIN budgets :
             c \notin Range(DefaultCategories) =>
                 c \in Range(budget_categories) /\ c \in DOMAIN budgets)
    /\ [][ ( /\ manager'.rendered
             /\ manager'.submit_button
             /\ manager'.new_category # ""
             /\ manager'.new_category \notin Range(InitBudgetCategories(budget_categories)) )
           => /\ budget_categories' =
                    Append(InitBudgetCategories(budget_categories), manager'.new_category)
              /\ manager'.new_category \in DOMAIN budgets'
              /\ budgets'[manager'.new_category] = manager'.new_category_budget
              /\ manager'.log = << <<"budget_categories", manager'.new_category>>,
                                   <<"budgets", manager'.new_category>> >> ]_vars

\* the submit that registered a custom category with a positive budget has just run
C3_Witness ==
    /\ BudgetSubmitted
    /\ manager.log # <<>>
    /\ manager.new_category_budget > 0
    /\ budgets[manager.new_category] = manager.new_category_budget

\* C4: after a submit every budget the user entered is stored: the value typed into a
\* category's own input, and the value given with a name in the custom-category input.
C4_SubmittedBudgetStored ==
    BudgetSubmitted =>
        /\ \A c \in DOMAIN manager.edits : budgets[c] = manager.edits[c]
        /\ manager.new_category # "" =>
              /\ manager.new_category \in DOMAIN budgets
              /\ budgets[manager.new_category] = manager.new_category_budget

\* C5: submitting the budget form again with the same entries changes neither the
\* allocation map nor the registry.
C5_SetBudgetIdempotent ==
    BudgetSubmitted =>
        LET again == BudgetForm(budget_categories, budgets, TRUE, manager.edits,
                                manager.new_category, manager.new_category_budget)
        IN  /\ again.budget_categories = budget_categories
            /\ again.budgets = budgets

\* a submit with a custom category and an edited input has run, the category is registered
C5_Witness ==
    /\ BudgetSubmitted
    /\ manager.new_category \notin Range(DefaultCategories) \cup {""}
    /\ manager.new_category \in Range(budget_categories)
    /\ manager.edits # NoEdits

\* the progress entries of the budget analysis of the current state
ProgressEntries ==
    IF manager.rendered /\ manager.analysis.shown
    THEN {manager.analysis.progress[c] : c \in DOMAIN manager.analysis.progress}
    ELSE {}

\* C6: for every shown category percentUsed is min(100, spent / budget * 100), and the
\* severity is critical (red) from 80 percent on, warning (orange) from 60 to below 80,
\* ok (green) below 60; both thresholds are inclusive lower bounds.
C6_SeverityThresholds ==
    \A e \in ProgressEntries :
        (e.budget > 0 /\ e.spent >= 0) =>
            /\ e.percentage # ZeroDivisionError
            /\ e.percentage.den > 0
            /\ IF e.spent >= e.budget
               THEN e.percentage.num = 100 * e.percentage.den
               ELSE e.percentage.num * e.budget = 100 * e.spent * e.percentage.den
            /\ (e.color = "red") <=> (100 * e.spent >= 80 * e.budget)
            /\ (e.color = "orange") <=>
                  (100 * e.spent >= 60 * e.budget /\ 100 * e.spent < 80 * e.budget)
            /\ (e.color = "green") <=> (100 * e.spent < 60 * e.budget)

\* a category whose spending is exactly 80 percent of its budget is shown as critical
C6_Witness ==
    \E e \in ProgressEntries :
        e.spent > 0 /\ 100 * e.spent = 80 * e.budget /\ e.color = "red"

\* C7: the analysis has an entry for a category exactly when its budget is above zero,
\* and no entry is the result of a division by a zero budget.
C7_OnlyPositiveBudgets ==
    manager.rendered =>
        /\ {e.category : e \in ProgressEntries} = {c \in DOMAIN budgets : budgets[c] > 0}
        /\ \A e \in ProgressEntries :
              /\ e.budget = budgets[e.category]
              /\ e.budget > 0
              /\ e.percentage # ZeroDivisionError
              /\ e.percentage.den # 0

\* the analysis is shown while a category with expenses in the period has a zero budget
C7_Witness ==
    /\ ProgressEntries # {}
    /\ \E c \in DOMAIN budgets :
          /\ budgets[c] = 0
          /\ manager.analysis.category_spending[c] > 0

\* C8: over budget is reported exactly when spent exceeds the budget, and the reported
\* overrun is spent minus budget.
C8_OverBudget ==
    \A e \in ProgressEntries :
        /\ (e.alert.kind = "Over budget by") <=> (e.spent > e.budget)
        /\ (e.spent > e.budget) => (e.alert.amount = e.spent - e.budget /\ e.remaining < 0)
        /\ e.remaining = e.budget - e.spent

\* one category is over budget
C8_Witness ==
    \E e \in ProgressEntries :
        e.spent > e.budget /\ e.alert.kind = "Over budget by" /\ e.alert.amount > 0

\* the records of rows, in order, whose date lies in [start_date, end_date] and whose
\* category lies in the given set
SubsequenceOf(rows, start_date, end_date, cats) ==
    LET idx == {i \in 1..Len(rows) : /\ start_date <= rows[i].date
                                     /\ rows[i].date <= end_date
                                     /\ rows[i].category \in cats}
        nth(k) == CHOOSE i \in idx : Cardinality({j \in idx : j <= i}) = k
    IN  [k \in 1..Cardinality(idx) |-> rows[nth(k)]]

\* the history tab was rendered with a custom date range
CustomHistory == tracker.rendered /\ tracker.history /\ tracker.date_filter = "Custom"

\* C9 as stated: the filter returns exactly the records dated within the inclusive range
\* whose category is in the selected set, in ledger order.
C9_FilterBySelectedSet ==
    CustomHistory =>
        tracker.filtered_expenses =
            SubsequenceOf(expenses, tracker.start_date, tracker.end_date,
                          tracker.selected_categories)

\* C9 amended: the filter returns exactly the records dated within the inclusive range
\* whose category is in the selected set when that set is not empty, and every record
\* dated within the range when it is empty; the result is in ledger order and a run
\* that only filters leaves the ledger unchanged.
C9_FilterSubsequence ==
    /\ [](CustomHistory =>
            tracker.filtered_expenses =
                SubsequenceOf(expenses, tracker.start_date, tracker.end_date,
                              IF tracker.selected_categories = {}
                              THEN CategoriesIn(expenses)
                              ELSE tracker.selected_categories))
    /\ [][(tracker'.rendered /\ ~tracker'.submit_button) => expenses' = expenses]_vars

\* a custom range with a non-empty selection keeps a record dated on the end date and
\* drops another record
C9_Witness ==
    /\ CustomHistory
    /\ tracker.selected_categories # {}
    /\ Len(tracker.filtered_expenses) < Len(expenses)
    /\ \E i \in 1..Len(tracker.filtered_expenses) :
          tracker.filtered_expenses[i].date = tracker.end_date

\* the history tab was rendered with the multiselect cleared
EmptySelection ==
    tracker.rendered /\ tracker.history /\ tracker.selected_categories = {}

\* C10 as stated: with an empty category selection the filter returns no records.
C10_EmptySelectionMatchesNothing ==
    EmptySelection => tracker.filtered_expenses = <<>>

\* C10 amended: with an empty category selection the category filter is skipped, so the
\* result is the same as with every category selected: all records that pass the date
\* filter.
C10_EmptySelectionMatchesAll ==
    EmptySelection =>
        /\ tracker.filtered_expenses =
              FilterExpenses(expenses, tracker.date_filter, tracker.start_date,
                             tracker.end_date, CategoriesIn(expenses))
        /\ tracker.date_filter = "All time" => tracker.filtered_expenses = expenses

\* the multiselect is empty and records are returned
C10_Witness ==
    /\ EmptySelection
    /\ tracker.filtered_expenses # <<>>

\* the history tab was rendered with no constraint: all dates, every category of the ledger
NoConstraints ==
    /\ tracker.rendered
    /\ tracker.history
    /\ tracker.date_filter = "All time"
    /\ tracker.selected_categories = CategoriesIn(expenses)

\* C11: filtering with no constraints is the identity: the result is the whole ledger in
\* append order, it ends with the record just added, and its total is the ledger total.
C11_NoConstraintIsIdentity ==
    NoConstraints =>
        /\ tracker.filtered_expenses = expenses
        /\ Len(tracker.filtered_expenses) = Len(expenses)
        /\ \A i \in 1..Len(expenses) : tracker.filtered_expenses[i] = expenses[i]
        /\ tracker.total_filtered = SumAmounts(expenses)

\* two records of different categories, one dated after today, are filtered without
\* constraints right after the second was added
C11_Witness ==
    /\ NoConstraints
    /\ tracker.submit_button
    /\ Len(expenses) >= 2
    /\ expenses[1].category # expenses[2].category
    /\ \E i \in 1..Len(expenses) : expenses[i].date > Today

C15_AmountsNonNegative ==
    /\ \A i \in 1..Len(expenses) : expenses[i].amount >= 0
    /\ \A c \in DOMAIN budgets : budgets[c] >= 0

\* the ledger holds a record and a positive budget is stored
C15_Witness ==
    /\ expenses # <<>>
    /\ \E c \in DOMAIN budgets : budgets[c] > 0

\* C16: the registry, once created, starts with the ten predefined names in their order
\* and has no duplicate; a step only appends to it, and a submit with an empty custom
\* name appends nothing.
C16_RegistryAppendOnly ==
    /\ [](budget_categories # <<>> =>
            /\ Len(budget_categories) >= 10
            /\ SubSeq(budget_categories, 1, 10) = DefaultCategories
            /\ \A i, j \in 1..Len(budget_categories) :
                  budget_categories[i] = budget_categories[j] => i = j
            /\ "" \notin Range(budget_categories))
    /\ [][ /\ Len(budget_categories') >= Len(budget_categories)
           /\ SubSeq(budget_categories', 1, Len(budget_categories)) = budget_categories
           /\ (manager'.rendered /\ manager'.new_category = "") =>
                 budget_categories' = InitBudgetCategories(budget_categories) ]_vars

\* a custom category follows the ten defaults after a later submit with an empty name
C16_Witness ==
    /\ Len(budget_categories) = 11
    /\ BudgetSubmitted
    /\ manager.new_category = ""

\* C17: the categories selectable in the expense form are the category registry, so an
\* expense can be recorded under a custom category once it is registered.
C17_FormCategoriesAreRegistry ==
    tracker.rendered => Range(categories) = Range(InitBudgetCategories(budget_categories))

\* C12: the per-category totals depend only on the multiset of the rows: the keys are
\* exactly the categories that occur in the rows, each value is the sum of the amounts of
\* the rows of that category, and every reordering of the rows gives the same mapping.
C12_SumByCategoryOfMultiset ==
    (chart.rendered /\ chart.plot = "plot_expense_by_category" /\ chart.expenses_df # <<>>) =>
        LET rows == chart.expenses_df
            totals == chart.category_totals
            orders == {f \in [DOMAIN rows -> DOMAIN rows] :
                          \A i, j \in DOMAIN rows : f[i] = f[j] => i = j}
        IN  /\ DOMAIN totals = {rows[i].category : i \in DOMAIN rows}
            /\ \A c \in DOMAIN totals :
                  totals[c] = SumAmounts(SelectSeq(rows, LAMBDA r : r.category = c))
            /\ \A f \in orders :
                  GroupByCategory([i \in DOMAIN rows |-> rows[f[i]]]) = totals

\* two rows of one category with different amounts are summed, the other category is absent
C12_Witness ==
    /\ chart.rendered
    /\ chart.plot = "plot_expense_by_category"
    /\ Len(chart.expenses_df) = 2
    /\ chart.expenses_df[1].category = chart.expenses_df[2].category
    /\ chart.expenses_df[1].amount # chart.expenses_df[2].amount
    /\ DOMAIN chart.category_totals # ChartCategories

\* the first day of the period a date falls in
PeriodStart(d, period) ==
    CASE period = "daily" -> d
      [] period = "weekly" -> d - Weekday(d)
      [] period = "monthly" -> DaysBeforeMonth[MonthOf(d)]

\* C13: the per-period totals are ordered by period start ascending for every
\* granularity: of two rows in periods with different starts, the bucket of the earlier
\* period comes before the bucket of the later one.
C13_PeriodsAscending ==
    (chart.rendered /\ chart.plot = "plot_expense_over_time" /\ chart.expenses_df # <<>>) =>
        LET rows == chart.expenses_df
            totals == chart.period_totals
        IN  \A i, j \in DOMAIN rows :
                PeriodStart(rows[i].date, chart.period) < PeriodStart(rows[j].date, chart.period) =>
                    \E a, b \in DOMAIN totals :
                        /\ a < b
                        /\ totals[a].period = PeriodKey(rows[i].date, chart.period)
                        /\ totals[b].period = PeriodKey(rows[j].date, chart.period)

\* C18: in the SIP calculation, when the real return rate is 0 the inflation-adjusted
\* final value is computed without a division by zero and equals the monthly amount
\* times the number of months.
C18_ZeroRealRateGuarded ==
    (calc.rendered /\ calc.tab = "SIP Calculator" /\ calc.real_return_rate.num = 0) =>
        /\ ~calc.exception
        /\ calc.inflation_adj_final # ZeroDivisionError
        /\ calc.inflation_adj_final = calc.monthly_investment * calc.time_years * 12

\* C19: the SIP projection has time_years * 12 points with the months 1 .. time_years * 12;
\* point 1 has value and cumulative contribution equal to the monthly amount; every later
\* point adds the amount to the cumulative contribution (n times the amount at point n)
\* and has the value of the previous point times (1 + r) plus the amount, which is the
\* amount times 1 + (1 + r) + ... + (1 + r)^(n-1).
C19_SipRecurrence ==
    (calc.rendered /\ calc.tab = "SIP Calculator") =>
        LET points == calc.sip_results
            amount == calc.monthly_investment
        IN  /\ Len(points) = calc.time_years * 12
            /\ \A n \in 1..Len(points) : points[n].Month = n
            /\ points[1].Investment_Value = <<amount>>
            /\ points[1].Total_Investment = amount
            /\ \A n \in 2..Len(points) :
                  /\ points[n].Total_Investment = points[n - 1].Total_Investment + amount
                  /\ points[n].Total_Investment = n * amount
                  /\ Len(points[n].Investment_Value) = n
                  /\ points[n].Investment_Value[1] = amount
                  /\ \A k \in 2..n :
                        points[n].Investment_Value[k] = points[n - 1].Investment_Value[k - 1]
                  /\ points[n].Investment_Value = [k \in 1..n |-> amount]

\* a SIP of 1000 a month at 12% over two years
C19_Witness ==
    /\ calc.rendered
    /\ calc.tab = "SIP Calculator"
    /\ calc.monthly_investment = 1000
    /\ calc.annual_return_rate = 12
    /\ calc.time_years = 2
    /\ Len(calc.sip_results) = 24

\* the product of two fractions, in lowest terms
Times(f, g) ==
    LET a == Fraction(f.num, f.den)
        b == Fraction(g.num, g.den)
    IN  Fraction(a.num * b.num, a.den * b.den)

\* C20: the lump-sum projection has time_years + 1 points for the years 0 .. time_years;
\* point 0 is the principal unchanged and each later point is the previous one
\* multiplied by (1 + rate/100), so the last point is principal * (1 + rate/100)^time_years.
C20_LumpsumCompounding ==
    (calc.rendered /\ calc.tab = "Lumpsum Calculator") =>
        LET points == calc.lumpsum_results
            principal == calc.investment_amount
            growth == [num |-> 100 + calc.annual_return_rate, den |-> 100]
        IN  /\ Len(points) = calc.time_years + 1
            /\ \A i \in 1..Len(points) : points[i].Year = i - 1
            /\ points[1].Investment_Value.num = principal * points[1].Investment_Value.den
            /\ \A i \in 2..Len(points) :
                  Times(points[i].Investment_Value, [num |-> 1, den |-> 1])
                      = Times(points[i - 1].Investment_Value, growth)
            /\ calc.final_value = points[calc.time_years + 1].Investment_Value

\* a lump sum of 10000 at 12% over two years
C20_Witness ==
    /\ calc.rendered
    /\ calc.tab = "Lumpsum Calculator"
    /\ calc.investment_amount = 10000
    /\ calc.annual_return_rate = 12
    /\ calc.time_years = 2
    /\ Len(calc.lumpsum_results) = 3

\* C23: the budget allocation map changes only when the user submits the budget form:
\* a step that changes the map, its set of keys included, is a run of the Budget Manager
\* with Save Budget Settings pressed.
C23_BudgetsChangeOnlyOnSubmit ==
    [][ budgets' # budgets => (manager'.rendered /\ manager'.submit_button) ]_vars

\* the Monday of the week of today
StartOfWeek == Today - Weekday(Today)

\* C24: in Weekly mode the spending of each category counts exactly the expenses dated
\* from the Monday of the displayed week through the Sunday six days later; an expense
\* dated after that Sunday is not counted.
C24_WeeklyCountsDisplayedWeek ==
    (manager.rendered /\ manager.budget_period = "Weekly" /\ manager.analysis.shown) =>
        \A c \in DOMAIN manager.analysis.category_spending :
            manager.analysis.category_spending[c] =
                SumAmounts(SelectSeq(expenses, LAMBDA r :
                    /\ r.category = c
                    /\ r.date >= StartOfWeek
                    /\ r.date <= StartOfWeek + 6))

\* C25: for every budgeted category that is not over budget, the low-remaining warning
\* is shown exactly when the severity is critical (red, percentage >= 80), the case of
\* spending exactly 80% of the budget included.
C25_WarningIffCritical ==
    (manager.rendered /\ manager.analysis.shown) =>
        \A c \in DOMAIN manager.analysis.progress :
            LET entry == manager.analysis.progress[c]
            IN  entry.alert.kind # "Over budget by" =>
                    (entry.alert.kind = "Only left in budget" <=> entry.color = "red")

\* the expenses dated within the period the analysis displays
DisplayedPeriodExpenses ==
    IF manager.budget_period = "Monthly"
    THEN ThisMonth(expenses)
    ELSE SelectSeq(expenses, LAMBDA r : r.date >= StartOfWeek /\ r.date <= StartOfWeek + 6)

\* C28: the overall Total Spent of the budget analysis equals the sum of the amounts of
\* all expenses dated within the analysed period.
C28_TotalSpentIsPeriodTotal ==
    (manager.rendered /\ manager.analysis.shown) =>
        manager.analysis.total_spent = SumAmounts(DisplayedPeriodExpenses)

\* C22: an empty ledger or an empty filter result is never an error: the Dashboard,
\* the expense history and the budget-versus-actual chart answer an empty ledger with
\* their informational message, the history answers filters that match nothing with
\* its message, and a budget analysis over no expense shows zero spending per category
\* with a defined percentage.
C22_EmptyResultsAreNotErrors ==
    /\ (dashboard.rendered /\ expenses = <<>>) =>
            /\ ~dashboard.summary
            /\ dashboard.message =
                  "Start tracking your expenses to see your financial summary here!"
    /\ (tracker.rendered /\ expenses = <<>>) =>
            /\ ~tracker.history
            /\ tracker.message =
                  "No expenses recorded yet. Start by adding your first expense!"
    /\ (tracker.rendered /\ expenses # <<>> /\ tracker.filtered_expenses = <<>>) =>
            tracker.message = "No expenses match your filters."
    /\ (manager.rendered /\ manager.analysis.shown /\ manager.analysis.monthly_expenses = <<>>) =>
            /\ \A c \in DOMAIN manager.analysis.category_spending :
                  manager.analysis.category_spending[c] = 0
            /\ \A c \in DOMAIN manager.analysis.progress :
                  /\ manager.analysis.progress[c].percentage # ZeroDivisionError
                  /\ manager.analysis.progress[c].percentage.num = 0
                  /\ manager.analysis.progress[c].color = "green"
            /\ manager.analysis.total_spent = 0
    /\ (manager.rendered /\ manager.analysis.shown /\ expenses = <<>>) =>
            manager.analysis.budget_vs_actual.message =
                "Both expense data and budget settings are needed for this visualization."

\* the history filters of a ledger that holds records match none of them
C22_Witness ==
    /\ tracker.rendered
    /\ expenses # <<>>
    /\ tracker.history
    /\ tracker.filtered_expenses = <<>>

\* C26: the seven daily amounts of the Spending Planner sum to the entered weekly pocket
\* money, with the equal distribution, with an accepted custom distribution and with a
\* rejected one.
C26_DailyAmountsSumToPocketMoney ==
    planner.rendered =>
        \E den \in {planner.daily_amounts[1].den} :
            /\ \A d \in 1..7 : planner.daily_amounts[d].den = den
            /\ SumSeq([d \in 1..7 |-> planner.daily_amounts[d].num]) = planner.pocket_money * den

\* C21: with an inflation rate of 0 the inflation-adjusted value of every projected point
\* is its nominal value: every month of the SIP series and every year of the lump-sum
\* series.
C21_ZeroInflationIsNoOp ==
    (calc.rendered /\ calc.inflation_rate = 0) =>
        /\ ~calc.exception
        /\ calc.tab = "SIP Calculator" =>
              /\ Len(calc.inflation_adj_values) = Len(calc.sip_results)
              /\ \A n \in 1..Len(calc.sip_results) :
                    /\ calc.inflation_adj_values[n].divisor = [num |-> 1, den |-> 1]
                    /\ calc.inflation_adj_values[n].dividend = calc.sip_results[n].Investment_Value
        /\ calc.tab = "Lumpsum Calculator" =>
              /\ Len(calc.inflation_adj_values) = Len(calc.lumpsum_results)
              /\ \A i \in 1..Len(calc.lumpsum_results) :
                    LET nominal == calc.lumpsum_results[i].Investment_Value
                    IN  calc.inflation_adj_values[i] = Fraction(nominal.num, nominal.den)

\* a SIP over two years calculated with an inflation rate of 0
C21_Witness ==
    /\ calc.rendered
    /\ calc.tab = "SIP Calculator"
    /\ calc.inflation_rate = 0
    /\ calc.time_years = 2
    /\ Len(calc.inflation_adj_values) = 24

RECURSIVE GrowthComponent(_, _, _, _)
\* a polynomial in g = 1 + monthly_rate, where g^12 is the rational annual growth, is
\* c_0 + c_1 g + ... + c_11 g^11 with rational c_j; this is c_j, summed over the
\* coefficients from index k on.  The polynomial is a rational number exactly when
\* c_1 .. c_11 are 0 (x^12 - growth has no rational factor for the growth rates used).
GrowthComponent(poly, j, growth, k) ==
    IF k > Len(poly) THEN [num |-> 0, den |-> 1]
    ELSE LET rest == GrowthComponent(poly, j, growth, k + 1)
         IN  IF (k - 1) % 12 # j THEN rest
             ELSE LET e == (k - 1) \div 12
                      term == Fraction(poly[k] * Power(growth.num, e), Power(growth.den, e))
                  IN  Fraction(term.num * rest.den + rest.num * term.den, term.den * rest.den)

\* C27: the Inflation-Adjusted Value metric equals the last point of the
\* inflation-adjusted series of the same inputs.  For the lump sum both are exact
\* fractions.  The SIP metric is a closed form over rationals with a whole number of
\* periods, a rational number, so the last point of the SIP series has to be one too.
C27_MetricIsLastAdjustedPoint ==
    calc.rendered =>
        /\ ~calc.exception
        /\ calc.tab = "Lumpsum Calculator" =>
              Fraction(calc.inflation_adj_final.num, calc.inflation_adj_final.den)
                  = calc.inflation_adj_values[Len(calc.inflation_adj_values)]
        /\ calc.tab = "SIP Calculator" =>
              LET last == calc.inflation_adj_values[Len(calc.inflation_adj_values)]
                  growth == Fraction(100 + calc.annual_return_rate, 100)
              IN  \A j \in 1..11 : GrowthComponent(last.dividend, j, growth, 1).num = 0

====
